---- MODULE Spec2Model ----
(***************************************************************************)
(* Model of the pipe-and-filter data pipeline of homework-3/pipeline.py:   *)
(* filter 1 (symbol acquisition), filter 2 (gap detection), filter 3       *)
(* (download and merge) and run_pipeline; of api_request over its retry    *)
(* session; of the context classes of two services, PriceDataManager       *)
(* (services/price_service/app.py) and TACalculator                        *)
(* (services/ta_service/app.py); of get_cached_data (app-azure.py); of the *)
(* construction of the prediction service's CacheManager and the methods   *)
(* of the price service's CacheManager under threads (factory.py of each   *)
(* service); and of Subject (services/prediction_service/observer.py).     *)
(*                                                                         *)
(* Time is counted in ticks, TicksPerDay ticks to a calendar day; a date   *)
(* string 'YYYY-MM-DD' is the number of its day.  A per-symbol .jsonl file *)
(* is a sequence of lines; a line is the JSON text of a candle record, the *)
(* JSON text of an object without a 'date' key, or text that is not JSON.  *)
(***************************************************************************)
EXTENDS Integers, Sequences, FiniteSets, TLC

\* ------------------------------------------------------------------ bounds
MaxDay == 1          \* calendar days 0..MaxDay; the run happens on day MaxDay
TicksPerDay == 2     \* candle open times per calendar day
MaxPage == 2         \* klines in one page of the exchange's answer
MaxRecords == 2      \* klines received for one symbol in one run
MaxRuns == 2         \* pipeline runs in one behaviour
TOP_N_SYMBOLS == 2   \* the configured TOP_N_SYMBOLS, scaled to the universe
MaxStrategies == 2   \* strategies registered with a PriceDataManager
MaxData == 2         \* candles in the answer of one price strategy
MaxSeries == 3       \* different price lists of one length

\* ------------------------------------------------------- program constants
FULL_DOWNLOAD_DAYS == 3650
None == -1

\* ACCEPTED_QUOTE_CURRENCIES with a fault: a fourth currency is accepted
AcceptedWithUnknown == {"USDT", "BUSD", "USDC", "XYZ"}

ACCEPTED_QUOTE_CURRENCIES == {"USDT", "BUSD", "USDC"}

AllSymbols == <<"AAA", "BBB", "CCC">>
SymbolSet == {AllSymbols[i] : i \in 1..Len(AllSymbols)}

Ticks == 0..((MaxDay + 1) * TicksPerDay - 1)
\* datetime.utcnow(): the last tick of day MaxDay
Now == (MaxDay + 1) * TicksPerDay - 1

\* ------------------------------------------------------------ python values
Num(n) == [t |-> "num", n |-> n]
Text == [t |-> "text"]
\* the text 'nan' (or the JSON literal NaN), which float() turns into nan
NaN == [t |-> "nan"]

\* dict.get(key, default)
DictGet(d, key, default) == IF key \in DOMAIN d THEN d[key] ELSE default

\* float(x): a number or nan, or ValueError/TypeError
FloatOk(v) == v.t \in {"num", "nan"}
FloatVal(v) == v.n
\* float(x) <= n: every comparison with nan is false
FloatLe(v, n) == v.t = "num" /\ v.n <= n

\* datetime.utcfromtimestamp(ts).strftime('%Y-%m-%d')
DateOfTick(t) == t \div TicksPerDay
\* datetime.strptime(s, '%Y-%m-%d'): midnight of that day
StrpTime(d) == d * TicksPerDay
\* timedelta(days=n)
TimeDelta(n) == n * TicksPerDay
\* the UTC offsets of the host's time zone, in ticks: west of UTC, UTC, east
UtcOffsets == {-1, 0, 1}

\* ------------------------------------------------------------------- files
BadLine == [kind |-> "bad"]
NoDateLine == [kind |-> "nodate"]
\* json.dumps(record) + '\n'
JsonDumps(r) == [kind |-> "rec", symbol |-> r.symbol, timestamp |-> r.timestamp,
                 date |-> r.date]
\* json.loads(line) succeeds
JsonLoadsOk(line) == line.kind # "bad"
\* record.get('date') of the parsed line
DateField(line) == IF line.kind = "rec" THEN line.date ELSE None

\* a file is accessible when open() on it succeeds; on a file that is not
\* (no permission on it) open() raises for every mode
NoFile == [exists |-> FALSE, accessible |-> TRUE, lines |-> <<>>]
FileOf(ls) == [exists |-> TRUE, accessible |-> TRUE, lines |-> ls]
LockedFile(ls) == [exists |-> TRUE, accessible |-> FALSE, lines |-> ls]

\* ---------------------------------------------------------------- variables
VARIABLES
    exchange_info,     \* answer of /exchangeInfo: sequence of symbol objects
    ticker_24h,        \* answer of /ticker/24hr: symbol -> ticker object
    files,             \* CRYPTO_DIR: symbol -> file
    metadata_file,     \* SYMBOLS_FILE: written metadata, or "absent"
    pc,                \* position of run_pipeline
    run,               \* number of the current run
    symbols,           \* clean_symbols returned by filter 1
    metadata,          \* metadata returned by filter 1
    symbol_date_map,   \* result of filter 2
    idx,               \* filter 3: index of the symbol in work (1-based)
    phase,             \* filter 3: position inside the loop body
    current_date,      \* _download_symbol_data: start of the next request
    records,           \* _download_symbol_data: records received so far
    total_records_downloaded,
    total_records_stored,
    errors,            \* filter 3: error messages (the symbol they name)
    run_error,         \* the exception run_pipeline re-raised, or "none"
    \* history of the current run, read by the properties only
    files_before,          \* files when the run started
    metadata_file_before,  \* metadata_file when the run started
    downloaded,            \* symbol -> what _download_symbol_data returned
    failed_downloads,      \* symbols one of whose /klines requests raised
    utc_offset,            \* UTC offset of the host's local time, in ticks
    requests,              \* params of the /klines requests sent for the
                           \* symbol in work: symbol, startTime (ms)
    pages,                 \* the pages those requests returned, in order
    finished,              \* symbols whose loop body has ended, in order
    slept,                 \* time.sleep ran since the last /klines request
    \* api_request over the session of create_retry_session
    req_pc,                \* "idle", "sent", "returned" or "raised"
    req_answers,           \* the answers the request got, in order
    \* PriceDataManager (services/price_service/app.py)
    strategies,            \* self.strategies: registered strategies, in order
    current_strategy,      \* self.current_strategy, or None
    price_call,            \* the last call of get_price_data and its result
    \* TACalculator (services/ta_service/app.py)
    ta_call,               \* the last call of calculate and its result
    \* get_cached_data (app-azure.py)
    data_cache,            \* the module's dict data_cache
    cache_timestamp,       \* the module's dict cache_timestamp
    clock,                 \* datetime.now().timestamp(), in seconds
    cache_call,            \* the last call of get_cached_data and its result
    \* CacheManager.__new__ (services/prediction_service/factory.py)
    new_pc,                \* thread -> its position in CacheManager()
    cls_instance,          \* CacheManager._instance: an object, or None
    cls_lock,              \* CacheManager._lock: the thread holding it, or None
    attrs,                 \* object -> the attributes it has
    new_returned,          \* thread -> what its call returned, and the
                           \* attributes the object had at that moment
    \* CacheManager of the price service (services/price_service/factory.py)
    mgr_cache,             \* the keys of self._cache
    mgr_ttl,               \* self._ttl: key -> "live" or "expired", which
                           \* is what time.time() < self._ttl[key] yields
    mgr_lock,              \* self._lock: the thread holding it, or None
    mgr_op,                \* thread -> the call it is in and its position
    \* Subject (services/prediction_service/observer.py)
    observers,             \* self._observers
    attached_at,           \* observer -> number of the call that attached
                           \* it, None while it is not attached
    subject_calls,         \* number of attach and detach calls so far
    notify_call            \* the last call of notify and the updates it made

vars == <<exchange_info, ticker_24h, files, metadata_file, pc, run, symbols,
          metadata, symbol_date_map, idx, phase, current_date, records,
          total_records_downloaded, total_records_stored, errors, run_error,
          files_before, metadata_file_before, downloaded, failed_downloads,
          utc_offset, requests, pages, finished, slept,
          req_pc, req_answers, strategies, current_strategy, price_call,
          ta_call, data_cache, cache_timestamp, clock, cache_call,
          new_pc, cls_instance, cls_lock, attrs, new_returned,
          mgr_cache, mgr_ttl, mgr_lock, mgr_op,
          observers, attached_at, subject_calls, notify_call>>

\* the variables of what is not the pipeline's run
requestVars == <<req_pc, req_answers>>
priceVars == <<strategies, current_strategy, price_call>>
serviceVars == <<requestVars, priceVars, ta_call>>
azureVars == <<data_cache, cache_timestamp, clock, cache_call>>
singletonVars == <<new_pc, cls_instance, cls_lock, attrs, new_returned>>
managerVars == <<mgr_cache, mgr_ttl, mgr_lock, mgr_op>>
subjectVars == <<observers, attached_at, subject_calls, notify_call>>
appVars == <<azureVars, singletonVars, managerVars, subjectVars>>
componentVars == <<serviceVars, appVars>>

envVars == <<exchange_info, ticker_24h, utc_offset>>
pipelineVars == <<exchange_info, ticker_24h, files, metadata_file, pc, run,
                  symbols, metadata, symbol_date_map, idx, phase, current_date,
                  records, total_records_downloaded, total_records_stored,
                  errors, run_error, files_before, metadata_file_before,
                  downloaded, failed_downloads, utc_offset, requests,
                  pages, finished, slept>>
traceVars == <<requests, pages, finished, slept>>
snapshotVars == <<files_before, metadata_file_before>>
histVars == <<files_before, metadata_file_before, downloaded, failed_downloads>>
f3Vars == <<idx, phase, current_date, records, total_records_downloaded,
            total_records_stored, errors>>

\* ------------------------------------------------- the exchange's answers
\* One /exchangeInfo symbol object
SymbolObjects(s) ==
    {[symbol |-> s, baseAsset |-> s, quoteAsset |-> q, status |-> st] :
        q \in {"USDT", "USDC", "XYZ"}, st \in {"TRADING", "BREAK"}}

\* One /ticker/24hr object; the 24h quote volume is its field quoteVolume
\* (src/app-azure.py:74, src/binance_data_extractor.py:100)
TickerObjects(s, vol) ==
    {[symbol |-> s, lastPrice |-> p, quoteVolume |-> Num(vol)] :
        p \in {Num(0), Num(1), Text, NaN}}

\* the ticker of one symbol is in the answer or is missing from it
TickerOptions(s, vol) == {<<>>} \cup {<<t>> : t \in TickerObjects(s, vol)}

\* the 24h quote volumes of the universe's symbols, pairwise distinct
VolumeAssignments ==
    {v \in [1..Len(AllSymbols) -> 1..Len(AllSymbols)] :
        \A i, j \in 1..Len(AllSymbols) : i # j => v[i] # v[j]}

\* every /exchangeInfo answer of the universe
ExchangeInfos ==
    {<<a, b, c>> : a \in SymbolObjects(AllSymbols[1]),
                   b \in SymbolObjects(AllSymbols[2]),
                   c \in SymbolObjects(AllSymbols[3])}

\* every /ticker/24hr answer of the universe
TickerAnswers ==
    UNION {{a \o b \o c : a \in TickerOptions(AllSymbols[1], v[1]),
                          b \in TickerOptions(AllSymbols[2], v[2]),
                          c \in TickerOptions(AllSymbols[3], v[3])} :
           v \in VolumeAssignments}

\* ---------------------------------------------------------------- filter 1
\* ticker_dict = {item['symbol']: item for item in ticker_24h}
TickerKeys(tick) == {tick[i].symbol : i \in 1..Len(tick)}
TickerDict(tick, s) ==
    tick[CHOOSE i \in 1..Len(tick) :
            /\ tick[i].symbol = s
            /\ \A j \in (i + 1)..Len(tick) : tick[j].symbol # s]

\* the loop over exchange_info['symbols'], from index i on;
\* acc = [data |-> symbols_data, excluded |-> excluded_count]
RECURSIVE ValidateSymbols(_, _, _, _)
ValidateSymbols(info, tick, i, acc) ==
    IF i > Len(info) THEN acc
    ELSE
      LET symbol_obj == info[i]
          symbol == symbol_obj.symbol
      IN
      IF symbol \notin TickerKeys(tick)
      THEN ValidateSymbols(info, tick, i + 1, acc)
      ELSE
        LET ticker == TickerDict(tick, symbol)
            quote_asset == DictGet(symbol_obj, "quoteAsset", "")
            last_price == DictGet(ticker, "lastPrice", Num(0))
            quote_volume == FloatVal(DictGet(ticker, "quoteAssetVolume", Num(0)))
            skip == [acc EXCEPT !.excluded = @ + 1]
        IN
        IF quote_asset \notin ACCEPTED_QUOTE_CURRENCIES
        THEN ValidateSymbols(info, tick, i + 1, skip)
        ELSE IF DictGet(symbol_obj, "status", "") # "TRADING"
        THEN ValidateSymbols(info, tick, i + 1, skip)
        ELSE IF ~FloatOk(last_price)
        THEN ValidateSymbols(info, tick, i + 1, skip)
        ELSE IF FloatLe(last_price, 0)
        THEN ValidateSymbols(info, tick, i + 1, skip)
        ELSE ValidateSymbols(info, tick, i + 1,
               [acc EXCEPT !.data = Append(@,
                   [symbol |-> symbol,
                    base_asset |-> DictGet(symbol_obj, "baseAsset", ""),
                    quote_asset |-> quote_asset,
                    volume_24h_usdt |-> quote_volume,
                    last_price |-> last_price,
                    validation_timestamp |-> Now])])

\* list.sort(key=volume_24h_usdt, reverse=True): stable, descending
RECURSIVE InsertDesc(_, _)
InsertDesc(s, x) ==
    IF s = <<>> THEN <<x>>
    ELSE IF Head(s).volume_24h_usdt >= x.volume_24h_usdt
         THEN <<Head(s)>> \o InsertDesc(Tail(s), x)
         ELSE <<x>> \o s

RECURSIVE SortByVolume(_)
SortByVolume(s) ==
    IF s = <<>> THEN <<>>
    ELSE InsertDesc(SortByVolume(SubSeq(s, 1, Len(s) - 1)), s[Len(s)])

\* symbols_data[:TOP_N_SYMBOLS]
TopN(s) == SubSeq(s, 1, IF Len(s) < TOP_N_SYMBOLS THEN Len(s) ELSE TOP_N_SYMBOLS)

\* filter_1_acquire_symbols once both requests were answered
Filter1Result(info, tick) ==
    LET acc == ValidateSymbols(info, tick, 1, [data |-> <<>>, excluded |-> 0])
        top_symbols == TopN(SortByVolume(acc.data))
        clean_symbols == [i \in 1..Len(top_symbols) |-> top_symbols[i].symbol]
    IN [symbols |-> clean_symbols,
        metadata |-> [total_symbols_extracted |-> Len(clean_symbols),
                      total_symbols_excluded |-> acc.excluded,
                      timestamp |-> Now,
                      symbols |-> top_symbols]]

NoMetadata == [total_symbols_extracted |-> 0, total_symbols_excluded |-> 0,
               timestamp |-> None, symbols |-> <<>>]
NoGapMap == [s \in {} |-> None]

\* run_pipeline calls filter_1_acquire_symbols and both requests are answered
Filter1Return ==
    /\ pc = "start"
    /\ LET r == Filter1Result(exchange_info, ticker_24h)
       IN /\ symbols' = r.symbols
          /\ metadata' = r.metadata
    /\ pc' = "filter1_done"
    /\ UNCHANGED <<componentVars, envVars, histVars, traceVars, files, metadata_file, run, symbol_date_map,
                   f3Vars, run_error>>

\* Filter1Raise with a fault: the failure path still writes the metadata file
Filter1RaiseAndSave ==
    /\ pc = "start"
    /\ \E endpoint \in {"/exchangeInfo", "/ticker/24hr"} :
          run_error' = endpoint
    /\ pc' = "failed"
    /\ metadata_file' = [written |-> TRUE, content |-> metadata]
    /\ UNCHANGED <<componentVars, envVars, histVars, traceVars, files, run, symbols, metadata,
                   symbol_date_map, f3Vars>>

\* one of the two requests of filter 1 raises: filter 1 re-raises, and so
\* does run_pipeline
Filter1Raise ==
    /\ pc = "start"
    /\ \E endpoint \in {"/exchangeInfo", "/ticker/24hr"} :
          run_error' = endpoint
    /\ pc' = "failed"
    /\ UNCHANGED <<componentVars, envVars, histVars, traceVars, files, metadata_file, run, symbols, metadata,
                   symbol_date_map, f3Vars>>

\* run_pipeline: json.dump(metadata) into SYMBOLS_FILE
SaveMetadata ==
    /\ pc = "filter1_done"
    /\ metadata_file' = [written |-> TRUE, content |-> metadata]
    /\ pc' = "saved"
    /\ UNCHANGED <<componentVars, envVars, histVars, traceVars, files, run, symbols, metadata, symbol_date_map,
                   f3Vars, run_error>>

\* ---------------------------------------------------------------- filter 2
\* GapRecord with a fault: the date is read from the first line of the file
GapRecordFirstLine(file) ==
    IF file.exists /\ file.lines # <<>> /\ JsonLoadsOk(file.lines[1])
    THEN [last_available_date |-> DateField(file.lines[1]),
          requires_full_download |-> FALSE, file_exists |-> TRUE]
    ELSE [last_available_date |-> None, requires_full_download |-> TRUE,
          file_exists |-> file.exists]

\* GapRecord with a fault: a file that cannot be opened counts as up to date
GapRecordLenient(file) ==
    IF file.exists
    THEN IF ~file.accessible
         THEN [last_available_date |-> None, requires_full_download |-> FALSE,
               file_exists |-> TRUE]
         ELSE IF file.lines = <<>>
         THEN [last_available_date |-> None, requires_full_download |-> TRUE,
               file_exists |-> TRUE]
         ELSE LET last_line == file.lines[Len(file.lines)]
              IN IF JsonLoadsOk(last_line)
                 THEN [last_available_date |-> DateField(last_line),
                       requires_full_download |-> FALSE, file_exists |-> TRUE]
                 ELSE [last_available_date |-> None,
                       requires_full_download |-> TRUE, file_exists |-> FALSE]
    ELSE [last_available_date |-> None, requires_full_download |-> TRUE,
          file_exists |-> FALSE]

\* the gap record filter_2_check_data_gaps computes for one symbol's file
GapRecord(file) ==
    IF file.exists
    THEN IF ~file.accessible
         THEN \* open() raises: the except-branch
              [last_available_date |-> None, requires_full_download |-> TRUE,
               file_exists |-> FALSE]
         ELSE IF file.lines = <<>>
         THEN [last_available_date |-> None, requires_full_download |-> TRUE,
               file_exists |-> TRUE]
         ELSE LET last_line == file.lines[Len(file.lines)]
              IN IF JsonLoadsOk(last_line)
                 THEN [last_available_date |-> DateField(last_line),
                       requires_full_download |-> FALSE, file_exists |-> TRUE]
                 ELSE [last_available_date |-> None,
                       requires_full_download |-> TRUE, file_exists |-> FALSE]
    ELSE [last_available_date |-> None, requires_full_download |-> TRUE,
          file_exists |-> FALSE]

\* filter_2_check_data_gaps(symbols)
Filter2Result(syms, fs) ==
    [s \in {syms[i] : i \in 1..Len(syms)} |-> GapRecord(fs[s])]

\* Filter2 with a fault: filter 2 creates the log of a symbol that has none
Filter2Touch ==
    /\ pc = "saved"
    /\ symbol_date_map' = Filter2Result(symbols, files)
    /\ files' = [s \in DOMAIN files |->
                   IF s \in DOMAIN symbol_date_map' /\ ~files[s].exists
                   THEN FileOf(<<>>) ELSE files[s]]
    /\ pc' = "filter3"
    /\ idx' = 1
    /\ phase' = "begin"
    /\ records' = <<>>
    /\ current_date' = 0
    /\ total_records_downloaded' = 0
    /\ total_records_stored' = 0
    /\ errors' = <<>>
    /\ requests' = <<>>
    /\ pages' = <<>>
    /\ finished' = <<>>
    /\ slept' = TRUE
    /\ UNCHANGED <<componentVars, envVars, histVars, metadata_file, run, symbols, metadata,
                   run_error>>

\* run_pipeline calls filter 2, then enters the loop of filter 3
Filter2 ==
    /\ pc = "saved"
    /\ symbol_date_map' = Filter2Result(symbols, files)
    /\ pc' = "filter3"
    /\ idx' = 1
    /\ phase' = "begin"
    /\ records' = <<>>
    /\ current_date' = 0
    /\ total_records_downloaded' = 0
    /\ total_records_stored' = 0
    /\ errors' = <<>>
    /\ requests' = <<>>
    /\ pages' = <<>>
    /\ finished' = <<>>
    /\ slept' = TRUE
    /\ UNCHANGED <<componentVars, envVars, histVars, files, metadata_file, run, symbols, metadata,
                   run_error>>

\* ---------------------------------------------------------------- filter 3
\* a kline of the exchange: kline[0] is its open time in milliseconds
Klines == {[open_time |-> t * 1000] : t \in Ticks}
RECURSIVE SeqsUpTo(_, _)
SeqsUpTo(S, n) ==
    IF n = 0 THEN {<<>>}
    ELSE LET shorter == SeqsUpTo(S, n - 1)
         IN shorter \cup {Append(q, x) : q \in shorter, x \in S}
\* the answers of /klines: any page of at most MaxPage klines
Pages == SeqsUpTo(Klines, MaxPage)

\* the record _download_symbol_data makes of one kline
Normalize(symbol, kline) ==
    [symbol |-> symbol,
     timestamp |-> kline.open_time \div 1000,
     date |-> DateOfTick(kline.open_time \div 1000)]

\* existing_dates of _store_symbol_data: the read loop stops, silently, at
\* the first line that is not JSON or has no 'date'
RECURSIVE ExistingDates(_)
ExistingDates(lines) ==
    IF lines = <<>> THEN {}
    ELSE IF Head(lines).kind # "rec" THEN {}
    ELSE {Head(lines).date} \cup ExistingDates(Tail(lines))

\* NewRecords with a fault: no fetched record is filtered out
NewRecordsUnfiltered(recs, existing_dates) == recs

RECURSIVE NewRecords(_, _)
NewRecords(recs, existing_dates) ==
    IF recs = <<>> THEN <<>>
    ELSE (IF Head(recs).date \notin existing_dates THEN <<Head(recs)>> ELSE <<>>)
         \o NewRecords(Tail(recs), existing_dates)

DumpAll(recs) == [i \in 1..Len(recs) |-> JsonDumps(recs[i])]

\* _store_symbol_data(symbol, records, file_exists): the file afterwards
StoreSymbolData(file, recs, file_exists) ==
    IF file_exists
    THEN LET new_records == NewRecords(recs, ExistingDates(file.lines))
         IN IF new_records # <<>>
            THEN FileOf(file.lines \o DumpAll(new_records))
            ELSE file
    ELSE FileOf(DumpAll(recs))

\* open(symbol_file, 'a' or 'w') of _store_symbol_data raises
StoreRaises(file) == ~file.accessible

\* CurrentSymbol with a fault: the list is walked from its end
CurrentSymbolReversed == symbols[Len(symbols) + 1 - idx]

\* for idx, symbol in enumerate(symbols)
CurrentSymbol == symbols[idx]

\* params['startTime'] = int(current_date.timestamp() * 1000): timestamp()
\* reads the naive datetime as local time of the host
StartTime(date) == (date - utc_offset) * 1000
\* params of one /klines request
KlinesParams(symbol, date) == [symbol |-> symbol, startTime |-> StartTime(date)]

\* the loop body up to the call of _download_symbol_data
F3Begin ==
    /\ pc = "filter3"
    /\ phase = "begin"
    /\ idx <= Len(symbols)
    /\ LET date_meta == symbol_date_map[CurrentSymbol]
       IN IF date_meta.requires_full_download
          THEN /\ current_date' = Now - TimeDelta(FULL_DOWNLOAD_DAYS)
               /\ phase' = "paging"
               /\ UNCHANGED <<idx, errors, finished>>
          ELSE IF date_meta.last_available_date = None
          THEN \* strptime(None, ...) raises: except-branch, next symbol
               /\ errors' = Append(errors, CurrentSymbol)
               /\ idx' = idx + 1
               /\ finished' = Append(finished, CurrentSymbol)
               /\ UNCHANGED <<current_date, phase>>
          ELSE /\ current_date' = StrpTime(date_meta.last_available_date)
                                      + TimeDelta(1)
               /\ phase' = "paging"
               /\ UNCHANGED <<idx, errors, finished>>
    /\ records' = <<>>
    /\ requests' = <<>>
    /\ pages' = <<>>
    /\ UNCHANGED <<componentVars, envVars, histVars, slept, files, metadata_file, pc, run, symbols, metadata,
                   symbol_date_map, total_records_downloaded,
                   total_records_stored, run_error>>

\* one /klines request of the paging loop is answered
KlinesAnswered ==
    /\ pc = "filter3"
    /\ phase = "paging"
    /\ current_date <= Now
    /\ \E klines \in Pages :
         /\ Len(records) + Len(klines) <= MaxRecords
         /\ pages' = Append(pages, klines)
         /\ IF klines = <<>>
            THEN /\ phase' = "store"
                 /\ UNCHANGED <<records, current_date>>
            ELSE /\ records' = records \o
                      [i \in 1..Len(klines) |-> Normalize(CurrentSymbol, klines[i])]
                 /\ current_date' =
                      (klines[Len(klines)].open_time \div 1000) + TimeDelta(1)
                 /\ UNCHANGED phase
    /\ requests' = Append(requests, KlinesParams(CurrentSymbol, current_date))
    /\ slept' = FALSE
    /\ UNCHANGED <<componentVars, envVars, histVars, finished, files, metadata_file, pc, run, symbols, metadata,
                   symbol_date_map, idx, total_records_downloaded,
                   total_records_stored, errors, run_error>>

\* KlinesFailed with a fault: the records received so far are dropped
KlinesFailedDropsRecords ==
    /\ pc = "filter3"
    /\ phase = "paging"
    /\ current_date <= Now
    /\ phase' = "store"
    /\ records' = <<>>
    /\ failed_downloads' = failed_downloads \cup {CurrentSymbol}
    /\ requests' = Append(requests, KlinesParams(CurrentSymbol, current_date))
    /\ slept' = FALSE
    /\ UNCHANGED <<componentVars, envVars, snapshotVars, downloaded, finished, pages, files, metadata_file, pc, run, symbols, metadata,
                   symbol_date_map, idx, current_date,
                   total_records_downloaded, total_records_stored, errors,
                   run_error>>

\* one /klines request raises: the loop breaks with the records so far
KlinesFailed ==
    /\ pc = "filter3"
    /\ phase = "paging"
    /\ current_date <= Now
    /\ phase' = "store"
    /\ failed_downloads' = failed_downloads \cup {CurrentSymbol}
    /\ requests' = Append(requests, KlinesParams(CurrentSymbol, current_date))
    /\ slept' = FALSE
    /\ UNCHANGED <<componentVars, envVars, snapshotVars, downloaded, finished, pages, files, metadata_file, pc, run, symbols, metadata,
                   symbol_date_map, idx, current_date, records,
                   total_records_downloaded, total_records_stored, errors,
                   run_error>>

\* while current_date <= end_date: the condition fails
PagingDone ==
    /\ pc = "filter3"
    /\ phase = "paging"
    /\ current_date > Now
    /\ phase' = "store"
    /\ UNCHANGED <<componentVars, envVars, histVars, traceVars, files, metadata_file, pc, run, symbols, metadata,
                   symbol_date_map, idx, current_date, records,
                   total_records_downloaded, total_records_stored, errors,
                   run_error>>

\* the rest of the loop body: count, store, sleep
F3Store ==
    /\ pc = "filter3"
    /\ phase = "store"
    /\ IF records = <<>>
       THEN \* nothing to store; sleep
            /\ slept' = TRUE
            /\ UNCHANGED <<total_records_downloaded, files,
                           total_records_stored, errors>>
       ELSE IF StoreRaises(files[CurrentSymbol])
       THEN \* _store_symbol_data raises: except-branch, next symbol
            /\ total_records_downloaded' = total_records_downloaded + Len(records)
            /\ errors' = Append(errors, CurrentSymbol)
            /\ UNCHANGED <<files, total_records_stored, slept>>
       ELSE \* store; sleep
            /\ total_records_downloaded' = total_records_downloaded + Len(records)
            /\ files' = [files EXCEPT ![CurrentSymbol] =
                            StoreSymbolData(@, records,
                                symbol_date_map[CurrentSymbol].file_exists)]
            /\ total_records_stored' = total_records_stored + Len(records)
            /\ slept' = TRUE
            /\ UNCHANGED errors
    /\ idx' = idx + 1
    /\ phase' = "begin"
    /\ records' = <<>>
    /\ downloaded' = [downloaded EXCEPT ![CurrentSymbol] = records]
    /\ finished' = Append(finished, CurrentSymbol)
    /\ requests' = <<>>
    /\ pages' = <<>>
    /\ UNCHANGED <<componentVars, envVars, snapshotVars, failed_downloads, metadata_file, pc, run, symbols, metadata,
                   symbol_date_map, current_date, run_error>>

\* the loop of filter 3 ends; run_pipeline returns
F3Complete ==
    /\ pc = "filter3"
    /\ phase = "begin"
    /\ idx > Len(symbols)
    /\ pc' = "complete"
    /\ UNCHANGED <<componentVars, envVars, histVars, traceVars, files, metadata_file, run, symbols, metadata,
                   symbol_date_map, f3Vars, run_error>>

\* the pipeline is invoked again
NextRun ==
    /\ pc \in {"complete", "failed"}
    /\ run < MaxRuns
    /\ run' = run + 1
    /\ pc' = "start"
    /\ symbols' = <<>>
    /\ metadata' = NoMetadata
    /\ symbol_date_map' = NoGapMap
    /\ idx' = 1
    /\ phase' = "begin"
    /\ current_date' = 0
    /\ records' = <<>>
    /\ total_records_downloaded' = 0
    /\ total_records_stored' = 0
    /\ errors' = <<>>
    /\ run_error' = "none"
    /\ files_before' = files
    /\ metadata_file_before' = metadata_file
    /\ downloaded' = [s \in SymbolSet |-> <<>>]
    /\ failed_downloads' = {}
    /\ requests' = <<>>
    /\ pages' = <<>>
    /\ finished' = <<>>
    /\ slept' = TRUE
    /\ UNCHANGED <<componentVars, envVars, files, metadata_file>>

\* ------------------------------------------- api_request and its session
\* Retry(total=retries, ...) of create_retry_session(retries=3)
RETRIES == 3
\* STATUS_FORCELIST with a fault: 404 is retried too
ForcelistWith404 == {404, 500, 502, 503, 504}
\* status_forcelist of the Retry object
STATUS_FORCELIST == {500, 502, 503, 504}

Response(st, b) == [kind |-> "response", status |-> st, body |-> b]
ConnectionError == [kind |-> "connection_error"]
\* what one send of the request meets: a response whose body is JSON, a
\* 200 response whose body is not JSON, or no response at all
Answers ==
    {Response(st, "json") : st \in {200, 404} \cup STATUS_FORCELIST}
        \cup {Response(200, "malformed"), ConnectionError}

\* the session re-sends after this answer, while retries are left
Retryable(a) ==
    \/ a.kind = "connection_error"
    \/ a.kind = "response" /\ a.status \in STATUS_FORCELIST

\* api_request is called: session.get sends the request
ApiRequest ==
    /\ req_pc \in {"idle", "returned", "raised"}
    /\ req_pc' = "sent"
    /\ req_answers' = <<>>
    /\ UNCHANGED <<pipelineVars, appVars, priceVars, ta_call>>

\* the answer is one the Retry object retries, and retries are left
RequestResent ==
    /\ req_pc = "sent"
    /\ Len(req_answers) < RETRIES
    /\ \E a \in Answers :
          /\ Retryable(a)
          /\ req_answers' = Append(req_answers, a)
    /\ UNCHANGED <<pipelineVars, appVars, req_pc, priceVars, ta_call>>

\* session.get, raise_for_status or response.json raises; api_request logs
\* the error and re-raises
RequestRaised ==
    /\ req_pc = "sent"
    /\ \E a \in Answers :
          /\ \/ Retryable(a) /\ Len(req_answers) >= RETRIES
             \/ ~Retryable(a) /\ a.status >= 400
             \/ ~Retryable(a) /\ a.status < 400 /\ a.body = "malformed"
          /\ req_answers' = Append(req_answers, a)
    /\ req_pc' = "raised"
    /\ UNCHANGED <<pipelineVars, appVars, priceVars, ta_call>>

\* api_request returns response.json()
RequestReturned ==
    /\ req_pc = "sent"
    /\ \E a \in Answers :
          /\ ~Retryable(a)
          /\ a.status < 400
          /\ a.body = "json"
          /\ req_answers' = Append(req_answers, a)
    /\ req_pc' = "returned"
    /\ UNCHANGED <<pipelineVars, appVars, priceVars, ta_call>>

\* ------------------------------------------------------ PriceDataManager
NoStrategy == "none"
StrategyNames == {"file", "api", "cache"}
\* get_source_name() of the strategy classes
SourceName(strategy) ==
    CASE strategy = "file" -> "File (Historical)"
      [] strategy = "api" -> "Live API"
      [] strategy = "cache" -> "Cache"

\* the lists of candles fetch_ohlcv returns
DataLists == {SubSeq(<<1, 2, 3>>, 1, n) : n \in 0..MaxData}
\* what one strategy answers in one call of get_price_data: is_available()
\* and, when it is available, fetch_ohlcv(symbol, timeframe, limit)
Outcomes ==
    {[available |-> FALSE, data |-> <<>>]}
        \cup {[available |-> TRUE, data |-> d] : d \in DataLists}
NoCall == [made |-> FALSE]

DataRecord(symbol, timeframe, data, strategy) ==
    [symbol |-> symbol, timeframe |-> timeframe, data |-> data,
     source |-> SourceName(strategy), count |-> Len(data)]

\* the fallback loop of get_price_data, from strategy i on
RECURSIVE Fallback(_, _, _, _, _)
Fallback(symbol, timeframe, strats, outs, i) ==
    IF i > Len(strats)
    THEN [error |-> "No data available", symbol |-> symbol]
    ELSE IF outs[i].available /\ outs[i].data # <<>>
    THEN DataRecord(symbol, timeframe, outs[i].data, strats[i])
    ELSE Fallback(symbol, timeframe, strats, outs, i + 1)

\* GetPriceDataResult with a fault: the primary strategy is not asked
GetPriceDataNoPrimary(symbol, timeframe, cur, strats, pout, outs) ==
    Fallback(symbol, timeframe, strats, outs, 1)

\* PriceDataManager.get_price_data(symbol, timeframe, limit); pout is the
\* answer of the primary strategy, outs[i] the answer of strategy i
GetPriceDataResult(symbol, timeframe, cur, strats, pout, outs) ==
    IF cur # NoStrategy /\ pout.available /\ pout.data # <<>>
    THEN DataRecord(symbol, timeframe, pout.data, cur)
    ELSE Fallback(symbol, timeframe, strats, outs, 1)

AddStrategy ==
    /\ Len(strategies) < MaxStrategies
    /\ \E strategy \in StrategyNames :
          strategies' = Append(strategies, strategy)
    /\ UNCHANGED <<pipelineVars, appVars, requestVars, current_strategy, price_call,
                   ta_call>>

SetPrimaryStrategy ==
    /\ \E strategy \in StrategyNames : current_strategy' = strategy
    /\ UNCHANGED <<pipelineVars, appVars, requestVars, strategies, price_call, ta_call>>

GetPriceData ==
    /\ \E symbol \in {"ETHUSDT", "XLMUSDC"}, timeframe \in {"1h"},
          pout \in Outcomes, outs \in [1..Len(strategies) -> Outcomes] :
          price_call' =
              [made |-> TRUE, symbol |-> symbol, timeframe |-> timeframe,
               current |-> current_strategy, registered |-> strategies,
               primary |-> pout, fallback |-> outs,
               result |-> GetPriceDataResult(symbol, timeframe,
                              current_strategy, strategies, pout, outs)]
    /\ UNCHANGED <<pipelineVars, appVars, requestVars, strategies, current_strategy,
                   ta_call>>

\* ----------------------------------------------------------- TACalculator
\* the keys of self.strategies
TAIndicators == {"rsi", "macd", "bb", "ma"}
\* get_indicator_name(), the 'indicator' field of a strategy's result
IndicatorName(key) ==
    CASE key = "rsi" -> "RSI"
      [] key = "macd" -> "MACD"
      [] key = "bb" -> "Bollinger Bands"
      [] key = "ma" -> "Moving Averages"
\* the least number of prices the strategy computes a value from
MinPrices(key) ==
    CASE key = "rsi" -> 14 + 1
      [] key = "macd" -> 26
      [] key = "bb" -> 20
      [] key = "ma" -> 50

\* a price list: its length, and which of MaxSeries series it is
PriceLengths == {0, 14, 15, 19, 20, 25, 26, 49, 50}
PriceLists == [len : PriceLengths, series : 1..MaxSeries]

\* a value and its class: str, float, numpy.float64, ...
Str(x) == [type |-> "str", val |-> x]
Float(x) == [type |-> "float", val |-> x]

\* strategy.calculate(prices); the numbers of the result are a function of
\* the strategy and the price list
StrategyCalculate(key, prices) ==
    IF prices.len < MinPrices(key)
    THEN [error |-> Str("Insufficient data")]
    ELSE [indicator |-> Str(IndicatorName(key)),
          value |-> Float(<<key, prices>>)]

\* _convert_numpy_types on one value: numpy.bool_ to bool, numpy.int64 and
\* numpy.int32 to int, numpy.float64 and numpy.float32 to float
ConvertValue(v) ==
    IF v.type = "numpy.bool_" THEN [v EXCEPT !.type = "bool"]
    ELSE IF v.type \in {"numpy.int64", "numpy.int32"}
    THEN [v EXCEPT !.type = "int"]
    ELSE IF v.type \in {"numpy.float64", "numpy.float32"}
    THEN [v EXCEPT !.type = "float"]
    ELSE v
\* _convert_numpy_types on a dict
ConvertNumpyTypes(obj) == [k \in DOMAIN obj |-> ConvertValue(obj[k])]

\* Calculate with a fault: an unknown name falls back to the RSI strategy
CalculateDefaultRsi(indicator, prices) ==
    LET key == IF indicator \in TAIndicators THEN indicator ELSE "rsi"
    IN [ran |-> <<key>>,
        result |-> ConvertNumpyTypes(StrategyCalculate(key, prices))]

\* TACalculator.calculate(indicator, prices): the strategies it ran, and
\* what it returns
Calculate(indicator, prices) ==
    IF indicator \notin TAIndicators
    THEN [ran |-> <<>>,
          result |-> [error |-> Str(<<"Unknown indicator: ", indicator>>)]]
    ELSE [ran |-> <<indicator>>,
          result |-> ConvertNumpyTypes(StrategyCalculate(indicator, prices))]

TACalculate ==
    /\ \E indicator \in TAIndicators \cup {"invalid", "RSI"},
          prices \in PriceLists :
          ta_call' = [made |-> TRUE, indicator |-> indicator,
                      prices |-> prices] @@ Calculate(indicator, prices)
    /\ UNCHANGED <<pipelineVars, appVars, requestVars, priceVars>>


\* --------------------------------------- get_cached_data (app-azure.py)
CACHE_DURATION == 300
\* the clock is read every ClockStep seconds, up to MaxClock
ClockStep == 150
MaxClock == 900
CacheKeys == {"binance_tickers", "other"}
CacheData == {1, 2}
\* what fetch_func does when it is called
FetchOutcomes == [raises : {FALSE}, data : CacheData]
                    \cup {[raises |-> TRUE, data |-> None]}

\* a Python dict as a function; {} is the function with no key
EmptyDict == [k \in {} |-> None]
DictSet(d, k, v) == [x \in DOMAIN d \cup {k} |-> IF x = k THEN v ELSE d[x]]

\* get_cached_data with a fault: after a failed fetch an expired entry is
\* not returned
GetCachedDataNoStale(cache, stamps, current_time, key, fetch) ==
    IF /\ key \in DOMAIN cache
       /\ key \in DOMAIN stamps
       /\ current_time - stamps[key] < CACHE_DURATION
    THEN [result |-> cache[key], fetched |-> FALSE,
          data_cache |-> cache, cache_timestamp |-> stamps]
    ELSE IF ~fetch.raises
         THEN [result |-> fetch.data, fetched |-> TRUE,
               data_cache |-> DictSet(cache, key, fetch.data),
               cache_timestamp |-> DictSet(stamps, key, current_time)]
         ELSE [result |-> None, fetched |-> TRUE,
               data_cache |-> cache, cache_timestamp |-> stamps]

\* get_cached_data(key, fetch_func): the value returned, whether fetch_func
\* was called, and the two dicts afterwards
GetCachedDataResult(cache, stamps, current_time, key, fetch) ==
    IF /\ key \in DOMAIN cache
       /\ key \in DOMAIN stamps
       /\ current_time - stamps[key] < CACHE_DURATION
    THEN [result |-> cache[key], fetched |-> FALSE,
          data_cache |-> cache, cache_timestamp |-> stamps]
    ELSE IF ~fetch.raises
         THEN [result |-> fetch.data, fetched |-> TRUE,
               data_cache |-> DictSet(cache, key, fetch.data),
               cache_timestamp |-> DictSet(stamps, key, current_time)]
         ELSE [result |-> IF key \in DOMAIN cache THEN cache[key] ELSE None,
               fetched |-> TRUE,
               data_cache |-> cache, cache_timestamp |-> stamps]

\* one call of get_cached_data
GetCachedData ==
    /\ \E key \in CacheKeys, fetch \in FetchOutcomes :
          LET r == GetCachedDataResult(data_cache, cache_timestamp, clock,
                                       key, fetch)
          IN /\ data_cache' = r.data_cache
             /\ cache_timestamp' = r.cache_timestamp
             /\ cache_call' = [made |-> TRUE, key |-> key, fetch |-> fetch,
                               current_time |-> clock,
                               cache_before |-> data_cache,
                               stamps_before |-> cache_timestamp,
                               fetched |-> r.fetched, result |-> r.result]
    /\ UNCHANGED <<pipelineVars, serviceVars, singletonVars, managerVars, subjectVars, clock>>

\* time passes between two calls
ClockAdvance ==
    /\ clock + ClockStep <= MaxClock
    /\ clock' = clock + ClockStep
    /\ UNCHANGED <<pipelineVars, serviceVars, singletonVars, managerVars, subjectVars, data_cache, cache_timestamp,
                   cache_call>>


\* ------------- CacheManager.__new__ (services/prediction_service/factory.py)
\* the threads that call CacheManager(); the object a thread creates is
\* named after the thread
MaxThreads == 3
Threads == 1..MaxThreads
NotReturned == [returned |-> FALSE]
\* the attributes __new__ gives the instance
InstanceAttrs == {"_cache", "_ttl", "_access_times"}

\* if cls._instance is None: (outside the lock)
NewCheck(t) ==
    /\ new_pc[t] = "call"
    /\ new_pc' = [new_pc EXCEPT ![t] =
                    IF cls_instance = None THEN "acquire" ELSE "return"]
    /\ UNCHANGED <<cls_instance, cls_lock, attrs, new_returned>>

\* with cls._lock:
NewAcquire(t) ==
    /\ new_pc[t] = "acquire"
    /\ cls_lock = None
    /\ cls_lock' = t
    /\ new_pc' = [new_pc EXCEPT ![t] = "recheck"]
    /\ UNCHANGED <<cls_instance, attrs, new_returned>>

\* if cls._instance is None: (inside the lock)
NewRecheck(t) ==
    /\ new_pc[t] = "recheck"
    /\ new_pc' = [new_pc EXCEPT ![t] =
                    IF cls_instance = None THEN "create" ELSE "release"]
    /\ UNCHANGED <<cls_instance, cls_lock, attrs, new_returned>>

\* cls._instance = super(CacheManager, cls).__new__(cls)
NewCreate(t) ==
    /\ new_pc[t] = "create"
    /\ cls_instance' = t
    /\ attrs' = [attrs EXCEPT ![t] = {}]
    /\ new_pc' = [new_pc EXCEPT ![t] = "_cache"]
    /\ UNCHANGED <<cls_lock, new_returned>>

\* cls._instance._cache = {}, then ._ttl = {}, then ._access_times = {}
NewSetAttr(t) ==
    /\ new_pc[t] \in InstanceAttrs
    /\ cls_instance # None
    /\ attrs' = [attrs EXCEPT ![cls_instance] = @ \cup {new_pc[t]}]
    /\ new_pc' = [new_pc EXCEPT ![t] =
                    IF @ = "_cache" THEN "_ttl"
                    ELSE IF @ = "_ttl" THEN "_access_times"
                    ELSE "release"]
    /\ UNCHANGED <<cls_instance, cls_lock, new_returned>>

\* the with-block is left
NewRelease(t) ==
    /\ new_pc[t] = "release"
    /\ cls_lock' = None
    /\ new_pc' = [new_pc EXCEPT ![t] = "return"]
    /\ UNCHANGED <<cls_instance, attrs, new_returned>>

\* return cls._instance
NewReturn(t) ==
    /\ new_pc[t] = "return"
    /\ new_returned' = [new_returned EXCEPT ![t] =
                          [returned |-> TRUE, instance |-> cls_instance,
                           attrs |-> IF cls_instance = None THEN {}
                                     ELSE attrs[cls_instance]]]
    /\ new_pc' = [new_pc EXCEPT ![t] = "done"]
    /\ UNCHANGED <<cls_instance, cls_lock, attrs>>

\* one step of one of the threads inside CacheManager()
CacheManagerNew ==
    /\ \E t \in Threads :
          \/ NewCheck(t)
          \/ NewAcquire(t)
          \/ NewRecheck(t)
          \/ NewCreate(t)
          \/ NewSetAttr(t)
          \/ NewRelease(t)
          \/ NewReturn(t)
    /\ UNCHANGED <<pipelineVars, serviceVars, azureVars, managerVars, subjectVars>>


\* --------------- CacheManager (services/price_service/factory.py:129-189)
\* the threads that call the methods of the one CacheManager
MaxCallers == 2
Callers == 1..MaxCallers
MgrKeys == {"k1", "k2"}
\* if len(self._cache) % 50 == 0: self.cleanup_expired()
CLEANUP_EVERY == 50
Idle == [name |-> "none", key |-> "none", pc |-> "idle", todo |-> <<>>]
DictDel(d, k) == [x \in DOMAIN d \ {k} |-> d[x]]

\* the sequences that list the elements of S once each
Orders(S) ==
    {q \in [1..Cardinality(S) -> S] : \A x \in S : \E i \in DOMAIN q : q[i] = x}

\* the thread's position becomes next
Goto(t, next) == mgr_op' = [mgr_op EXCEPT ![t].pc = next]
\* an exception leaves the with-block: the lock is released, the call ends
Raise(t) == mgr_op' = [mgr_op EXCEPT ![t].pc = "release", ![t].name = "raised"]

\* a thread calls set, get or remove with a key, clear or cleanup_expired;
\* clear takes no lock
MgrCall(t) ==
    /\ mgr_op[t].pc = "idle"
    /\ \E call \in ({"set", "get", "remove"} \X MgrKeys)
                     \cup ({"clear", "cleanup_expired"} \X {"none"}) :
          mgr_op' = [mgr_op EXCEPT ![t] =
                       [name |-> call[1], key |-> call[2],
                        pc |-> IF call[1] = "clear" THEN "clear_cache"
                               ELSE "acquire",
                        todo |-> <<>>]]
    /\ UNCHANGED <<mgr_cache, mgr_ttl, mgr_lock>>

\* with self._lock:
MgrAcquire(t) ==
    /\ mgr_op[t].pc = "acquire"
    /\ mgr_lock = None
    /\ mgr_lock' = t
    /\ Goto(t, mgr_op[t].name)
    /\ UNCHANGED <<mgr_cache, mgr_ttl>>

\* set: self._cache[key] = value, then self._ttl[key] = time.time() + ...
MgrSet(t) ==
    LET key == mgr_op[t].key
    IN \/ /\ mgr_op[t].pc = "set"
          /\ mgr_cache' = mgr_cache \cup {key}
          /\ Goto(t, "set_ttl")
          /\ UNCHANGED <<mgr_ttl, mgr_lock>>
       \/ /\ mgr_op[t].pc = "set_ttl"
          /\ mgr_ttl' = DictSet(mgr_ttl, key, "live")
          /\ Goto(t, "release")
          /\ UNCHANGED <<mgr_cache, mgr_lock>>

\* get: the tests of lines 134-136
MgrGetTest(t) ==
    LET key == mgr_op[t].key
    IN /\ \/ /\ mgr_op[t].pc = "get"
             /\ Goto(t, IF key \in mgr_cache THEN "get_in_ttl" ELSE "release")
          \/ /\ mgr_op[t].pc = "get_in_ttl"
             /\ Goto(t, IF key \in DOMAIN mgr_ttl THEN "get_fresh"
                        ELSE "get_default")
          \/ /\ mgr_op[t].pc = "get_fresh"
             /\ IF key \notin DOMAIN mgr_ttl
                THEN Raise(t)
                ELSE Goto(t, IF mgr_ttl[key] = "live" THEN "get_return"
                             ELSE "get_del_cache")
          \/ /\ mgr_op[t].pc = "get_return"
             /\ IF key \notin mgr_cache THEN Raise(t) ELSE Goto(t, "release")
       /\ UNCHANGED <<mgr_cache, mgr_ttl, mgr_lock>>

\* get: the writes of lines 140, 141 and 144
MgrGetWrite(t) ==
    LET key == mgr_op[t].key
    IN \/ /\ mgr_op[t].pc = "get_del_cache"
          /\ IF key \in mgr_cache
             THEN mgr_cache' = mgr_cache \ {key} /\ Goto(t, "get_del_ttl")
             ELSE Raise(t) /\ UNCHANGED mgr_cache
          /\ UNCHANGED <<mgr_ttl, mgr_lock>>
       \/ /\ mgr_op[t].pc = "get_del_ttl"
          /\ IF key \in DOMAIN mgr_ttl
             THEN mgr_ttl' = DictDel(mgr_ttl, key) /\ Goto(t, "release")
             ELSE Raise(t) /\ UNCHANGED mgr_ttl
          /\ UNCHANGED <<mgr_cache, mgr_lock>>
       \/ /\ mgr_op[t].pc = "get_default"
          /\ mgr_ttl' = DictSet(mgr_ttl, key, "live")
          /\ Goto(t, "get_return")
          /\ UNCHANGED <<mgr_cache, mgr_lock>>

\* remove: lines 172-175
MgrRemove(t) ==
    LET key == mgr_op[t].key
    IN \/ /\ mgr_op[t].pc = "remove"
          /\ Goto(t, IF key \in mgr_cache THEN "rm_del_cache" ELSE "rm_in_ttl")
          /\ UNCHANGED <<mgr_cache, mgr_ttl, mgr_lock>>
       \/ /\ mgr_op[t].pc = "rm_del_cache"
          /\ IF key \in mgr_cache
             THEN mgr_cache' = mgr_cache \ {key} /\ Goto(t, "rm_in_ttl")
             ELSE Raise(t) /\ UNCHANGED mgr_cache
          /\ UNCHANGED <<mgr_ttl, mgr_lock>>
       \/ /\ mgr_op[t].pc = "rm_in_ttl"
          /\ Goto(t, IF key \in DOMAIN mgr_ttl THEN "rm_del_ttl" ELSE "release")
          /\ UNCHANGED <<mgr_cache, mgr_ttl, mgr_lock>>
       \/ /\ mgr_op[t].pc = "rm_del_ttl"
          /\ IF key \in DOMAIN mgr_ttl
             THEN mgr_ttl' = DictDel(mgr_ttl, key) /\ Goto(t, "release")
             ELSE Raise(t) /\ UNCHANGED mgr_ttl
          /\ UNCHANGED <<mgr_cache, mgr_lock>>

\* clear: self._cache.clear(), then self._ttl.clear(), without the lock
MgrClear(t) ==
    \/ /\ mgr_op[t].pc = "clear_cache"
       /\ mgr_cache' = {}
       /\ Goto(t, "clear_ttl")
       /\ UNCHANGED <<mgr_ttl, mgr_lock>>
    \/ /\ mgr_op[t].pc = "clear_ttl"
       /\ mgr_ttl' = EmptyDict
       /\ mgr_op' = [mgr_op EXCEPT ![t] = Idle]
       /\ UNCHANGED <<mgr_cache, mgr_lock>>

\* cleanup_expired: expired_keys, then the loop of lines 185-188
MgrCleanup(t) ==
    LET todo == mgr_op[t].todo
    IN \/ /\ mgr_op[t].pc = "cleanup_expired"
          /\ \E q \in Orders({k \in DOMAIN mgr_ttl : mgr_ttl[k] = "expired"}) :
                mgr_op' = [mgr_op EXCEPT ![t].todo = q, ![t].pc = "loop"]
          /\ UNCHANGED <<mgr_cache, mgr_ttl, mgr_lock>>
       \/ /\ mgr_op[t].pc = "loop"
          /\ Goto(t, IF todo = <<>> THEN "release"
                     ELSE IF Head(todo) \in mgr_cache THEN "cu_del_cache"
                     ELSE "cu_del_ttl")
          /\ UNCHANGED <<mgr_cache, mgr_ttl, mgr_lock>>
       \/ /\ mgr_op[t].pc = "cu_del_cache"
          /\ IF Head(todo) \in mgr_cache
             THEN mgr_cache' = mgr_cache \ {Head(todo)} /\ Goto(t, "cu_del_ttl")
             ELSE Raise(t) /\ UNCHANGED mgr_cache
          /\ UNCHANGED <<mgr_ttl, mgr_lock>>
       \/ /\ mgr_op[t].pc = "cu_del_ttl"
          /\ IF Head(todo) \in DOMAIN mgr_ttl
             THEN /\ mgr_ttl' = DictDel(mgr_ttl, Head(todo))
                  /\ mgr_op' = [mgr_op EXCEPT ![t].todo = Tail(todo),
                                              ![t].pc = "loop"]
             ELSE Raise(t) /\ UNCHANGED mgr_ttl
          /\ UNCHANGED <<mgr_cache, mgr_lock>>

\* the with-block is left; set goes on to its test of line 161
MgrRelease(t) ==
    /\ mgr_op[t].pc = "release"
    /\ mgr_lock' = None
    /\ mgr_op' = [mgr_op EXCEPT ![t] =
                    IF mgr_op[t].name = "set"
                    THEN [@ EXCEPT !.pc = "after_set"]
                    ELSE Idle]
    /\ UNCHANGED <<mgr_cache, mgr_ttl>>

\* set: if len(self._cache) % 50 == 0: self.cleanup_expired()
MgrAfterSet(t) ==
    /\ mgr_op[t].pc = "after_set"
    /\ mgr_op' = [mgr_op EXCEPT ![t] =
                    IF Cardinality(mgr_cache) % CLEANUP_EVERY = 0
                    THEN [name |-> "cleanup_expired", key |-> "none",
                          pc |-> "acquire", todo |-> <<>>]
                    ELSE Idle]
    /\ UNCHANGED <<mgr_cache, mgr_ttl, mgr_lock>>

\* time passes beyond self._ttl[key]
MgrExpire ==
    /\ \E key \in DOMAIN mgr_ttl :
          /\ mgr_ttl[key] = "live"
          /\ mgr_ttl' = [mgr_ttl EXCEPT ![key] = "expired"]
    /\ UNCHANGED <<mgr_cache, mgr_lock, mgr_op>>

\* one step of one thread inside a method of the CacheManager, or of time
CacheManagerStep ==
    /\ \/ \E t \in Callers :
             \/ MgrCall(t)
             \/ MgrAcquire(t)
             \/ MgrSet(t)
             \/ MgrGetTest(t)
             \/ MgrGetWrite(t)
             \/ MgrRemove(t)
             \/ MgrClear(t)
             \/ MgrCleanup(t)
             \/ MgrRelease(t)
             \/ MgrAfterSet(t)
       \/ MgrExpire
    /\ UNCHANGED <<pipelineVars, serviceVars, azureVars, singletonVars, subjectVars>>


\* ---------------------- Subject (services/prediction_service/observer.py)
ObserverSet == {"a", "b", "c"}
\* at most MaxSubjectCalls calls of attach and detach are made
MaxSubjectCalls == 5
Range(q) == {q[i] : i \in 1..Len(q)}
\* list.remove(x): the list without the first x
RECURSIVE ListRemove(_, _)
ListRemove(q, x) ==
    IF q = <<>> THEN <<>>
    ELSE IF Head(q) = x THEN Tail(q)
    ELSE <<Head(q)>> \o ListRemove(Tail(q), x)

\* the loop of notify with a fault: an update that raises ends the loop
RECURSIVE NotifyUpdatesUncaught(_, _)
NotifyUpdatesUncaught(observers_copy, raising) ==
    IF observers_copy = <<>> THEN <<>>
    ELSE IF Head(observers_copy) \in raising
    THEN <<Head(observers_copy)>>
    ELSE <<Head(observers_copy)>>
            \o NotifyUpdatesUncaught(Tail(observers_copy), raising)

\* the loop of notify: the observers whose update is called, in order; the
\* exception of an update in raising is caught and logged
RECURSIVE NotifyUpdates(_, _)
NotifyUpdates(observers_copy, raising) ==
    IF observers_copy = <<>> THEN <<>>
    ELSE <<Head(observers_copy)>>
            \o NotifyUpdates(Tail(observers_copy), raising)

\* attach(observer)
Attach ==
    /\ subject_calls < MaxSubjectCalls
    /\ \E observer \in ObserverSet :
          /\ observers' = IF observer \notin Range(observers)
                          THEN Append(observers, observer)
                          ELSE observers
          /\ attached_at' = IF attached_at[observer] = None
                            THEN [attached_at EXCEPT ![observer] = subject_calls + 1]
                            ELSE attached_at
    /\ subject_calls' = subject_calls + 1
    /\ UNCHANGED <<pipelineVars, serviceVars, azureVars, singletonVars,
                   managerVars, notify_call>>

\* detach(observer)
Detach ==
    /\ subject_calls < MaxSubjectCalls
    /\ \E observer \in ObserverSet :
          /\ observers' = IF observer \in Range(observers)
                          THEN ListRemove(observers, observer)
                          ELSE observers
          /\ attached_at' = [attached_at EXCEPT ![observer] = None]
    /\ subject_calls' = subject_calls + 1
    /\ UNCHANGED <<pipelineVars, serviceVars, azureVars, singletonVars,
                   managerVars, notify_call>>

\* notify(event_type, data), with the observers in raising raising in update
Notify ==
    /\ \E raising \in SUBSET ObserverSet :
          notify_call' = [made |-> TRUE, raising |-> raising,
                          attached_at |-> attached_at,
                          updated |-> NotifyUpdates(observers, raising)]
    /\ UNCHANGED <<pipelineVars, serviceVars, azureVars, singletonVars,
                   managerVars, observers, attached_at, subject_calls>>

\* ----------------------------------------------------------- specifications
CandleLine(s, t) == JsonDumps(Normalize(s, [open_time |-> t * 1000]))

\* the states a symbol's file is in before the first run
InitFiles(s) ==
    {NoFile,
     FileOf(<<>>),
     FileOf(<<CandleLine(s, 0)>>),
     FileOf(<<CandleLine(s, 0), BadLine>>),
     FileOf(<<CandleLine(s, 0), NoDateLine>>),
     LockedFile(<<CandleLine(s, 0)>>)}

InitLocals ==
    /\ metadata_file = [written |-> FALSE, content |-> NoMetadata]
    /\ pc = "start"
    /\ run = 1
    /\ symbols = <<>>
    /\ metadata = NoMetadata
    /\ symbol_date_map = NoGapMap
    /\ idx = 1
    /\ phase = "begin"
    /\ current_date = 0
    /\ records = <<>>
    /\ total_records_downloaded = 0
    /\ total_records_stored = 0
    /\ errors = <<>>
    /\ run_error = "none"
    /\ files_before = files
    /\ metadata_file_before = metadata_file
    /\ downloaded = [s \in SymbolSet |-> <<>>]
    /\ failed_downloads = {}
    /\ requests = <<>>
    /\ pages = <<>>
    /\ finished = <<>>
    /\ slept = TRUE

\* the services' objects after construction; no request is under way
InitComponents ==
    /\ req_pc = "idle"
    /\ req_answers = <<>>
    /\ strategies = <<>>
    /\ current_strategy = NoStrategy
    /\ price_call = NoCall
    /\ ta_call = NoCall
    /\ data_cache = EmptyDict
    /\ cache_timestamp = EmptyDict
    /\ clock = 0
    /\ cache_call = NoCall
    /\ new_pc = [t \in Threads |-> "call"]
    /\ cls_instance = None
    /\ cls_lock = None
    /\ attrs = [o \in Threads |-> {}]
    /\ new_returned = [t \in Threads |-> NotReturned]
    /\ mgr_cache = {}
    /\ mgr_ttl = EmptyDict
    /\ mgr_lock = None
    /\ mgr_op = [t \in Callers |-> Idle]
    /\ observers = <<>>
    /\ attached_at = [o \in ObserverSet |-> None]
    /\ subject_calls = 0
    /\ notify_call = NoCall

ValidObject(s) == [symbol |-> s, baseAsset |-> s, quoteAsset |-> "USDT",
                   status |-> "TRADING"]
ValidTicker(s, vol) == [symbol |-> s, lastPrice |-> Num(1), quoteVolume |-> Num(vol)]

\* the whole pipeline against an exchange that lists three valid symbols;
\* the files of the first two are in any of the states of InitFiles
Init ==
    /\ exchange_info = <<ValidObject("AAA"), ValidObject("BBB"), ValidObject("CCC")>>
    /\ ticker_24h = <<ValidTicker("AAA", 1), ValidTicker("BBB", 2),
                      ValidTicker("CCC", 3)>>
    /\ \E a \in InitFiles("AAA"), b \in InitFiles("BBB") :
          files = [s \in SymbolSet |->
                     IF s = "AAA" THEN a ELSE IF s = "BBB" THEN b ELSE NoFile]
    /\ utc_offset \in UtcOffsets
    /\ InitLocals
    /\ InitComponents

Next ==
    \/ Filter1Return
    \/ Filter1Raise
    \/ SaveMetadata
    \/ Filter2
    \/ F3Begin
    \/ KlinesAnswered
    \/ KlinesFailed
    \/ PagingDone
    \/ F3Store
    \/ F3Complete
    \/ NextRun

Spec == Init /\ [][Next]_vars

\* the whole pipeline started with no per-symbol file at all
InitFresh ==
    /\ Init
    /\ \A s \in SymbolSet : ~files[s].exists

SpecFresh == InitFresh /\ [][Next]_vars

\* filter 1 alone, against every answer of the exchange
InitStage1 ==
    /\ exchange_info \in ExchangeInfos
    /\ ticker_24h \in TickerAnswers
    /\ files = [s \in SymbolSet |-> NoFile]
    /\ utc_offset = 0
    /\ InitLocals
    /\ InitComponents

NextStage1 ==
    \/ Filter1Return
    \/ Filter1Raise
    \/ SaveMetadata

SpecStage1 == InitStage1 /\ [][NextStage1]_vars

\* filters 1 and 2 against every state of the three files; each symbol is
\* tradeable or not, so that filter 2 gets every list of at most
\* TOP_N_SYMBOLS symbols
HaltedObject(s) == [symbol |-> s, baseAsset |-> s, quoteAsset |-> "USDT",
                    status |-> "BREAK"]
InitStage2 ==
    /\ \E a \in {ValidObject("AAA"), HaltedObject("AAA")},
          b \in {ValidObject("BBB"), HaltedObject("BBB")},
          c \in {ValidObject("CCC"), HaltedObject("CCC")} :
          exchange_info = <<a, b, c>>
    /\ ticker_24h = <<ValidTicker("AAA", 1), ValidTicker("BBB", 2),
                      ValidTicker("CCC", 3)>>
    /\ \E a \in InitFiles("AAA"), b \in InitFiles("BBB"), c \in InitFiles("CCC") :
          files = [s \in SymbolSet |->
                     IF s = "AAA" THEN a ELSE IF s = "BBB" THEN b ELSE c]
    /\ utc_offset = 0
    /\ InitLocals
    /\ InitComponents

NextStage2 ==
    \/ Filter1Return
    \/ SaveMetadata
    \/ Filter2

SpecStage2 == InitStage2 /\ [][NextStage2]_vars

\* the services alone: the pipeline does not run
InitServices ==
    /\ exchange_info = <<>>
    /\ ticker_24h = <<>>
    /\ files = [s \in SymbolSet |-> NoFile]
    /\ utc_offset = 0
    /\ InitLocals
    /\ InitComponents

\* api_request, called again and again
NextRequest ==
    \/ ApiRequest
    \/ RequestResent
    \/ RequestRaised
    \/ RequestReturned

SpecRequest == InitServices /\ [][NextRequest]_vars

\* a PriceDataManager that is set up and asked for price data
NextPrice ==
    \/ AddStrategy
    \/ SetPrimaryStrategy
    \/ GetPriceData

SpecPrice == InitServices /\ [][NextPrice]_vars

\* a TACalculator that is asked for single indicators
NextTA == TACalculate

SpecTA == InitServices /\ [][NextTA]_vars

\* get_cached_data called again and again while time passes
NextCached ==
    \/ GetCachedData
    \/ ClockAdvance

SpecCached == InitServices /\ [][NextCached]_vars

\* threads that call CacheManager() for the first time, in any interleaving
NextSingleton == CacheManagerNew

SpecSingleton == InitServices /\ [][NextSingleton]_vars

\* threads that call set, get, remove, clear and cleanup_expired of the
\* price service's CacheManager, in any interleaving
NextManager == CacheManagerStep

SpecManager == InitServices /\ [][NextManager]_vars

\* a Subject whose observers are attached, detached and notified
NextSubject ==
    \/ Attach
    \/ Detach
    \/ Notify

SpecSubject == InitServices /\ [][NextSubject]_vars

\* ------------------------------------------------------------- properties
\* the dates of the candle records of a file, in file order
RECURSIVE DatesOf(_)
DatesOf(lines) ==
    IF lines = <<>> THEN <<>>
    ELSE (IF Head(lines).kind = "rec" THEN <<Head(lines).date>> ELSE <<>>)
         \o DatesOf(Tail(lines))

IsPrefix(a, b) == Len(a) <= Len(b) /\ SubSeq(b, 1, Len(a)) = a
Listed == {symbols[i] : i \in 1..Len(symbols)}
\* the file can be read and ends in a candle record
LastLineIsCandle(file) ==
    /\ file.exists
    /\ file.accessible
    /\ file.lines # <<>>
    /\ file.lines[Len(file.lines)].kind = "rec"
DateSet(lines) == {DatesOf(lines)[i] : i \in 1..Len(DatesOf(lines))}

\* C1 (uniqueness): in every state, no per-symbol log holds two candle
\* records with the same date.
C1_UniqueDates ==
    \A s \in SymbolSet :
        LET d == DatesOf(files[s].lines)
        IN \A i, j \in 1..Len(d) : i # j => d[i] # d[j]

\* C2 (monotonicity): in every state, the dates of every per-symbol log are
\* non-decreasing from the first line to the last.
C2_MonotoneDates ==
    \A s \in SymbolSet :
        LET d == DatesOf(files[s].lines)
        IN \A i, j \in 1..Len(d) : i < j => d[i] <= d[j]

C4_AppendOnly ==
    [][\A s \in SymbolSet :
          files[s].exists =>
              /\ files'[s].exists
              /\ IsPrefix(files[s].lines, files'[s].lines)]_vars

\* C5 (partial-failure isolation): when filter 3 is complete and the download
\* of exactly one symbol raised, every other listed symbol's log is the merge
\* of its downloaded records into the log it had when the run started, and the
\* error list holds exactly one entry, the one of the failed symbol.
C5_OneErrorEntry ==
    pc = "complete" =>
        \A s \in Listed :
            failed_downloads = {s} =>
                /\ \A t \in Listed \ {s} :
                      files[t] = IF downloaded[t] # <<>>
                                 THEN StoreSymbolData(files_before[t], downloaded[t],
                                          GapRecord(files_before[t]).file_exists)
                                 ELSE files_before[t]
                /\ errors = <<s>>

GapKnown == pc \in {"filter3", "complete"}
LastLine(file) == file.lines[Len(file.lines)]

\* C6 (gap classification, normal cases): once filter 2 has run, a listed
\* symbol that had no file has the record (null, full download, no file), and
\* a listed symbol whose file ended in a candle record of date d has the
\* record (d, no full download, file exists).
C6_GapClassification ==
    GapKnown =>
        \A s \in Listed :
            /\ ~files_before[s].exists =>
                 symbol_date_map[s] =
                     [last_available_date |-> None,
                      requires_full_download |-> TRUE, file_exists |-> FALSE]
            /\ LastLineIsCandle(files_before[s]) =>
                 symbol_date_map[s] =
                     [last_available_date |-> LastLine(files_before[s]).date,
                      requires_full_download |-> FALSE, file_exists |-> TRUE]

\* C6 witness: filter 2 has classified a symbol without file and a symbol
\* whose log holds candles of two different dates.
C6_Witness ==
    /\ GapKnown
    /\ \E s, t \in Listed :
         /\ ~files_before[s].exists
         /\ LastLineIsCandle(files_before[t])
         /\ Len(files_before[t].lines) >= 2
         /\ files_before[t].lines[1].date # LastLine(files_before[t]).date

\* C7 (gap classification, damaged log): once filter 2 has run, a listed
\* symbol whose file existed and was empty, or ended in a line that is not
\* JSON, has the record (null, full download, file exists).
C7_DamagedLogGap ==
    GapKnown =>
        \A s \in Listed :
            ( /\ files_before[s].exists
              /\ \/ files_before[s].lines = <<>>
                 \/ LastLine(files_before[s]).kind = "bad" )
            => symbol_date_map[s] =
                   [last_available_date |-> None,
                    requires_full_download |-> TRUE, file_exists |-> TRUE]

Stage1Returned == pc \in {"filter1_done", "saved"}
NamesOf(details) == {details[k].symbol : k \in 1..Len(details)}

\* C8 (validation filter): once filter 1 has returned, no symbol whose quote
\* asset is outside {USDT, BUSD, USDC} is in the returned list, in the
\* returned metadata or in the written metadata file.
C8_QuoteFilter ==
    Stage1Returned =>
        \A i \in 1..Len(exchange_info) :
            exchange_info[i].quoteAsset \notin {"USDT", "BUSD", "USDC"} =>
                /\ exchange_info[i].symbol \notin Listed
                /\ exchange_info[i].symbol \notin NamesOf(metadata.symbols)
                /\ exchange_info[i].symbol \notin NamesOf(metadata_file.content.symbols)

\* C8 witness: filter 1 has returned and the metadata is written, for an
\* exchange whose symbol of highest volume trades, has a positive price and
\* is quoted in XYZ, while another symbol was kept.
C8_Witness ==
    /\ pc = "saved"
    /\ symbols # <<>>
    /\ \E i \in 1..Len(exchange_info), k \in 1..Len(ticker_24h) :
         /\ exchange_info[i].quoteAsset = "XYZ"
         /\ exchange_info[i].status = "TRADING"
         /\ ticker_24h[k].symbol = exchange_info[i].symbol
         /\ ticker_24h[k].lastPrice = Num(1)
         /\ ticker_24h[k].quoteVolume = Num(Len(AllSymbols))

\* the checks of section 4.1, on the exchange's answers
HasTicker(sym) == \E k \in 1..Len(ticker_24h) : ticker_24h[k].symbol = sym
TickerOf(sym) == ticker_24h[CHOOSE k \in 1..Len(ticker_24h) : ticker_24h[k].symbol = sym]
PassesValidation(i) ==
    /\ HasTicker(exchange_info[i].symbol)
    /\ exchange_info[i].quoteAsset \in {"USDT", "BUSD", "USDC"}
    /\ exchange_info[i].status = "TRADING"
    /\ TickerOf(exchange_info[i].symbol).lastPrice.t = "num"
    /\ TickerOf(exchange_info[i].symbol).lastPrice.n > 0
ValidSymbols == {exchange_info[i].symbol : i \in {j \in 1..Len(exchange_info) : PassesValidation(j)}}
QuoteVolume(sym) == TickerOf(sym).quoteVolume.n

\* C9 (top-N ranking): once filter 1 has returned, the list holds
\* min(TOP_N_SYMBOLS, number of valid symbols) valid symbols, in descending
\* order of their 24h quote volume, and no valid symbol left out has a higher
\* volume than a listed one.
C9_TopNByVolume ==
    Stage1Returned =>
        /\ Listed \subseteq ValidSymbols
        /\ Len(symbols) = IF Cardinality(ValidSymbols) < TOP_N_SYMBOLS
                          THEN Cardinality(ValidSymbols) ELSE TOP_N_SYMBOLS
        /\ \A i, j \in 1..Len(symbols) :
              i < j => QuoteVolume(symbols[i]) > QuoteVolume(symbols[j])
        /\ \A s \in Listed, t \in ValidSymbols \ Listed :
              QuoteVolume(s) > QuoteVolume(t)

LaterStageStep ==
    \/ SaveMetadata
    \/ Filter2
    \/ F3Begin
    \/ KlinesAnswered
    \/ KlinesFailed
    \/ PagingDone
    \/ F3Store
    \/ F3Complete

\* C10 (stage 1 failure is fatal): when a request of filter 1 has failed, the
\* run has ended with that error, no symbol list and no metadata were
\* returned, the metadata file and every per-symbol log are as they were when
\* the run started, filter 2 has produced nothing, and no step of the
\* metadata save, of filter 2 or of filter 3 can follow.
C10_Stage1Fatal ==
    pc = "failed" =>
        /\ run_error \in {"/exchangeInfo", "/ticker/24hr"}
        /\ symbols = <<>>
        /\ metadata = NoMetadata
        /\ metadata_file = metadata_file_before
        /\ files = files_before
        /\ DOMAIN symbol_date_map = {}
        /\ total_records_downloaded = 0
        /\ total_records_stored = 0
        /\ ~ENABLED LaterStageStep

\* C10 witness: the second run failed at the second request of filter 1,
\* after a first run that wrote the metadata file and a per-symbol log.
C10_Witness ==
    /\ pc = "failed"
    /\ run = 2
    /\ run_error = "/ticker/24hr"
    /\ metadata_file.written
    /\ \E s \in SymbolSet : files[s].lines # <<>>

\* ----------------------------------------------------- C11: termination
\* a non-empty page of klines arrives in the paging loop
PageReceived == pc = "filter3" /\ phase = "paging" /\ records' # records

\* C11 (termination): the paging loop of _download_symbol_data ends for
\* every sequence of answers of the exchange: an answered request either
\* ends the loop (empty page, failure) or moves current_date forward, so
\* that the loop condition current_date <= end_date fails after at most as
\* many pages as there are days from the start date to now.
C11_PagingProgress == [][PageReceived => current_date' > current_date]_vars

\* ------------------------------------------------------- C12: merge rule
\* the fetched records whose date is not among the given dates, in order
NotLogged(recs, dates) == SelectSeq(recs, LAMBDA r : r.date \notin dates)

\* C12 (merge rule): when a run has completed, for every symbol it fetched
\* records for and whose log could be opened: if the symbol's log existed when the run started, the log
\* is its old content followed by exactly the fetched records whose date
\* was not yet in the log, in the order received; if the log did not
\* exist, it holds all fetched records in the order received.
C12_MergeRule ==
    pc = "complete" =>
        \A s \in Listed :
            (downloaded[s] # <<>> /\ files_before[s].accessible) =>
                IF files_before[s].exists
                THEN files[s].lines =
                        files_before[s].lines \o
                        DumpAll(NotLogged(downloaded[s],
                                          DateSet(files_before[s].lines)))
                ELSE files[s].lines = DumpAll(downloaded[s])

\* ------------------------------------------------- C13: fetch start date
\* the calendar day (UTC) in which a request's startTime lies
StartDay(start_time) == DateOfTick(start_time \div 1000)

\* C13 (fetch start date): the first /klines request for a symbol starts at
\* now minus 3650 days when its gap record requires a full download, and
\* otherwise exactly one day after the gap record's last_available_date; no
\* request for such a symbol starts on or before the day recorded as the
\* log's last date.
C13_FetchStart ==
    (pc = "filter3" /\ requests # <<>>) =>
        LET gap == symbol_date_map[requests[1].symbol]
        IN IF gap.requires_full_download
           THEN requests[1].startTime =
                    (Now - TimeDelta(FULL_DOWNLOAD_DAYS)) * 1000
           ELSE /\ requests[1].startTime =
                    (StrpTime(gap.last_available_date) + TimeDelta(1)) * 1000
                /\ \A i \in 1..Len(requests) :
                      StartDay(requests[i].startTime) > gap.last_available_date

\* --------------------------------------------- C14: stage 2 never aborts
\* reading the file, or parsing its last line, raises in filter 2
ReadFails(file) ==
    /\ file.exists
    /\ \/ ~file.accessible
       \/ file.lines # <<>> /\ LastLine(file).kind = "bad"

\* C14 (stage 2 never aborts): whatever the list of symbols and the state
\* of their files (missing, empty, not readable, last line damaged), filter
\* 2 can return; when it has, every listed symbol has a gap record, and
\* the record of a symbol requires a full download exactly when this
\* symbol's own file is missing, empty, or could not be read or parsed: a
\* failure on one file makes that symbol a full download and changes no
\* other symbol's record.
C14_Stage2Total ==
    /\ pc = "saved" => ENABLED Filter2
    /\ GapKnown =>
         /\ DOMAIN symbol_date_map = Listed
         /\ \A s \in Listed :
               symbol_date_map[s].requires_full_download =
                   ( \/ ~files_before[s].exists
                     \/ files_before[s].lines = <<>>
                     \/ ReadFails(files_before[s]) )

\* C14 witness: filter 2 has returned for a list with a file that cannot
\* be opened and a file that is up to date.
C14_Witness ==
    /\ GapKnown
    /\ \E s, t \in Listed :
          /\ ~files_before[s].accessible
          /\ symbol_date_map[s].requires_full_download
          /\ LastLineIsCandle(files_before[t])
          /\ ~symbol_date_map[t].requires_full_download
    /\ \E u \in SymbolSet :
          files_before[u].lines # <<>> /\ LastLine(files_before[u]).kind = "bad"

\* ------------------------------------- C15: only tradeable symbols listed
ObjectOf(sym) ==
    exchange_info[CHOOSE i \in 1..Len(exchange_info) : exchange_info[i].symbol = sym]

\* C15 (stage 1 admits only tradeable symbols): once filter 1 has returned,
\* every listed symbol has an entry in the 24h statistics, has trading
\* status TRADING, and has a last price that is a number greater than 0.
C15_TradeableOnly ==
    Stage1Returned =>
        \A s \in Listed :
            /\ HasTicker(s)
            /\ ObjectOf(s).status = "TRADING"
            /\ TickerOf(s).lastPrice.t = "num"
            /\ TickerOf(s).lastPrice.n > 0

\* --------------------------------------------- C16: bounded transport retry
\* answer i of the request was followed by another send of the request
Resent(i) == i < Len(req_answers) \/ (i = Len(req_answers) /\ req_pc = "sent")
ResentAnswers == {i \in 1..Len(req_answers) : Resent(i)}
HasForcedStatus(a) == a.kind = "response" /\ a.status \in {500, 502, 503, 504}
RequestOver == req_pc \in {"returned", "raised"}

Stage2Starts == pc # "filter3" /\ pc' = "filter3"
\* a step in which a /klines request is sent
RequestSent == Len(requests') > Len(requests)
SentRequest == requests'[Len(requests')]

\* C17 (stage and symbol ordering): filter 2 starts only when filter 1 has
\* returned its list and the metadata file holds its metadata; a /klines
\* request is sent only when filter 2 has classified every listed symbol,
\* and it is a request for the first symbol of the list whose loop body
\* has not ended: the symbols before it, in list order, are exactly those
\* that have finished or failed.
C17_Ordering ==
    [][ /\ Stage2Starts =>
             /\ symbols = Filter1Result(exchange_info, ticker_24h).symbols
             /\ metadata_file = [written |-> TRUE, content |-> metadata]
        /\ RequestSent =>
             /\ pc = "filter3"
             /\ DOMAIN symbol_date_map = Listed
             /\ Len(finished) < Len(symbols)
             /\ finished = SubSeq(symbols, 1, Len(finished))
             /\ SentRequest.symbol = symbols[Len(finished) + 1]
      ]_vars

\* C17 witness: the first symbol's records were merged into its log, and a
\* request for the second symbol has been sent.
C17_Witness ==
    /\ pc = "filter3"
    /\ Len(symbols) = 2
    /\ finished = <<symbols[1]>>
    /\ downloaded[symbols[1]] # <<>>
    /\ files[symbols[1]] # files_before[symbols[1]]
    /\ requests # <<>>
    /\ requests[1].symbol = symbols[2]

\* ------------------------------------------------------ C18: rate limiting
\* the first /klines request for a symbol is sent
FirstRequestSent == requests = <<>> /\ requests' # <<>>

\* C18 (rate limiting between symbols): when the first request for a
\* symbol is sent, the rate-limit sleep has run since the last request made
\* for an earlier symbol, also when the earlier symbol's loop body ended
\* with an exception after its requests.
C18_SleepBetweenSymbols == [][FirstRequestSent => slept]_vars

\* ------------------------------------ C19: get_price_data strategy fallback
\* the strategy answered that it is available and gave candles
Yields(outcome) == outcome.available /\ outcome.data # <<>>
YieldingStrategies(call) ==
    {i \in 1..Len(call.registered) : Yields(call.fallback[i])}

\* C19 (strategy fallback): get_price_data returns the primary strategy's
\* data when a primary strategy is set, is available and gives candles;
\* otherwise the data of the first registered strategy, in registration
\* order, that is available and gives candles; an error record only when
\* no strategy gives data.  A data record carries the requested symbol and
\* count = len(data).
C19_StrategyFallback ==
    price_call.made =>
        LET call == price_call
            result == call.result
            yielding == YieldingStrategies(call)
        IN /\ IF call.current # "none" /\ Yields(call.primary)
              THEN /\ "data" \in DOMAIN result
                   /\ result.data = call.primary.data
                   /\ result.source = SourceName(call.current)
              ELSE IF yielding # {}
              THEN LET first == CHOOSE i \in yielding : \A j \in yielding : i <= j
                   IN /\ "data" \in DOMAIN result
                      /\ result.data = call.fallback[first].data
                      /\ result.source = SourceName(call.registered[first])
              ELSE /\ "error" \in DOMAIN result
                   /\ "data" \notin DOMAIN result
           /\ "data" \in DOMAIN result =>
                 /\ result.symbol = call.symbol
                 /\ result.count = Len(result.data)

\* C19 witness: a primary strategy is set and gives nothing, the first
\* registered strategy is not available, and the data of the second one is
\* returned.
C19_Witness ==
    /\ price_call.made
    /\ price_call.current # "none"
    /\ ~Yields(price_call.primary)
    /\ Len(price_call.registered) = 2
    /\ ~price_call.fallback[1].available
    /\ Yields(price_call.fallback[2])
    /\ price_call.result.data = price_call.fallback[2].data
    /\ price_call.result.count = 2

\* --------------------------------------- C20: TACalculator.calculate
\* C20 (unknown indicator): calculate with a name that is not one of the
\* registered indicators returns an error record and runs no strategy,
\* whatever the price list; with a registered name it runs that strategy
\* alone and returns its result.
C20_UnknownIndicator ==
    ta_call.made =>
        IF ta_call.indicator \notin {"rsi", "macd", "bb", "ma"}
        THEN /\ "error" \in DOMAIN ta_call.result
             /\ ta_call.ran = <<>>
        ELSE /\ ta_call.ran = <<ta_call.indicator>>
             /\ ta_call.result = StrategyCalculate(ta_call.indicator, ta_call.prices)

\* C20 witness: calculate was called with the unregistered name 'invalid'
\* and a price list long enough for every strategy.
C20_Witness ==
    /\ ta_call.made
    /\ ta_call.indicator = "invalid"
    /\ ta_call.prices.len = 50
    /\ ta_call.ran = <<>>


\* ------------------------------------------------ C21: paging protocol
\* the records of the given pages, page after page, in the order received
RECURSIVE PageRecords(_, _)
PageRecords(symbol, pgs) ==
    IF pgs = <<>> THEN <<>>
    ELSE [i \in 1..Len(pgs[1]) |-> Normalize(symbol, pgs[1][i])]
            \o PageRecords(symbol, Tail(pgs))

\* the open time (ms) of the last candle of a page
LastOpenTime(page) == page[Len(page)].open_time

\* every request after the first starts one day after the open time of the
\* last candle of the page before it
NextStartsAfterLast ==
    \A i \in 2..Len(requests) :
        /\ pages[i - 1] # <<>>
        /\ requests[i].startTime =
              LastOpenTime(pages[i - 1]) + TimeDelta(1) * 1000

\* successive requests have strictly increasing start dates
StartsIncrease ==
    \A i \in 2..Len(requests) :
        StartDay(requests[i].startTime) > StartDay(requests[i - 1].startTime)

\* no request follows an empty page
StopsAtEmptyPage ==
    /\ \A i \in 1..Len(pages) : pages[i] = <<>> => i = Len(requests)
    /\ (pages # <<>> /\ pages[Len(pages)] = <<>>) => phase # "paging"

\* the records are the received pages, concatenated in the order received
RecordsArePages ==
    phase \in {"paging", "store"} =>
        records = PageRecords(CurrentSymbol, pages)

\* C21 (paging protocol): each /klines request after the first starts
\* exactly one day after the open date of the last candle of the previous
\* page, so that successive requests have strictly increasing start dates;
\* paging stops at the first empty page, and the records are the
\* concatenation of all received pages in the order received.
C21_PagingProtocol ==
    pc = "filter3" =>
        /\ NextStartsAfterLast
        /\ StartsIncrease
        /\ StopsAtEmptyPage
        /\ RecordsArePages


\* ------------------------------------------- C22: stage 2 is read-only
\* C22 (stage 2 is read-only and local): the step of filter 2 sends no
\* request to the exchange and leaves every symbol's log and the metadata
\* file as they were, whatever list of symbols it is given.
C22_Stage2ReadOnly ==
    [][Stage2Starts => /\ files' = files
                       /\ metadata_file' = metadata_file
                       /\ ~RequestSent
                       /\ requests' = <<>>]_vars

\* C22 witness: filter 2 has returned for a list with a symbol whose log
\* exists and a symbol whose log is missing; nothing was sent and the logs
\* are those of the start of the run.
C22_Witness ==
    /\ GapKnown
    /\ \E s, t \in Listed :
          /\ files_before[s].exists /\ symbol_date_map[s].file_exists
          /\ ~files_before[t].exists /\ ~symbol_date_map[t].file_exists
    /\ files = files_before
    /\ requests = <<>>


\* ------------------------------------------------ C23: stage 3 counters
\* the number of lines this run wrote to the log of symbol s
WrittenLines(s) ==
    IF downloaded[s] = <<>> \/ ~files_before[s].accessible
    THEN 0
    ELSE IF symbol_date_map[s].file_exists
         THEN Len(files[s].lines) - Len(files_before[s].lines)
         ELSE Len(files[s].lines)

RECURSIVE SumOver(_, _)
SumOver(S, f) ==
    IF S = {} THEN 0
    ELSE LET s == CHOOSE x \in S : TRUE
         IN f[s] + SumOver(S \ {s}, f)

\* the stored counter is the number of lines written in this run
StoredIsWritten ==
    total_records_stored =
        SumOver(Listed, [s \in Listed |-> WrittenLines(s)])

\* the downloaded counter is the number of candles _download_symbol_data
\* returned, over all symbols
DownloadedIsReturned ==
    total_records_downloaded =
        SumOver(Listed, [s \in Listed |-> Len(downloaded[s])])

\* C23 (stage 3 counters): when stage 3 has ended, the records-stored
\* counter equals the number of records written to the symbols' logs in this
\* run, and the records-downloaded counter equals the number of candles
\* _download_symbol_data returned over all symbols.
C23_Counters ==
    pc = "complete" => (StoredIsWritten /\ DownloadedIsReturned)


\* ---------------------------------- C24: get_cached_data, stale fallback
\* the age, at the last call, of the entry of the call's key
EntryAge == cache_call.current_time - cache_call.stamps_before[cache_call.key]
HadEntry ==
    /\ cache_call.key \in DOMAIN cache_call.cache_before
    /\ cache_call.key \in DOMAIN cache_call.stamps_before

\* C24 (stale fallback): when the entry of the key is missing or older than
\* CACHE_DURATION and fetch_func raises, get_cached_data returns the value
\* cached for the key before, if there is one (expired or not), and None
\* otherwise, and leaves data_cache and cache_timestamp as they were; when
\* the entry is younger than CACHE_DURATION, it returns the cached value and
\* does not call fetch_func.
C24_StaleFallback ==
    cache_call.made =>
        /\ ((~HadEntry \/ EntryAge > CACHE_DURATION) /\ cache_call.fetch.raises) =>
              /\ cache_call.result =
                    IF cache_call.key \in DOMAIN cache_call.cache_before
                    THEN cache_call.cache_before[cache_call.key]
                    ELSE None
              /\ data_cache = cache_call.cache_before
              /\ cache_timestamp = cache_call.stamps_before
        /\ (HadEntry /\ EntryAge < CACHE_DURATION) =>
              /\ cache_call.result = cache_call.cache_before[cache_call.key]
              /\ ~cache_call.fetched

\* C24 witness: a call for a key whose entry has expired, with a fetch_func
\* that raises, returned the expired value.
C24_Witness ==
    /\ cache_call.made
    /\ HadEntry
    /\ EntryAge > CACHE_DURATION
    /\ cache_call.fetch.raises
    /\ cache_call.fetched
    /\ cache_call.result = cache_call.cache_before[cache_call.key]


\* ------------------------------------------ C25: gap-record consistency
\* C25 (gap-record consistency): in every gap record filter 2 produces,
\* requires_full_download is false exactly when last_available_date is a
\* date (not null), so that filter 3 never computes 'last date + 1 day' from
\* a null date; this includes a log whose last line is JSON without a date
\* field.
C25_GapRecordConsistent ==
    GapKnown =>
        \A s \in Listed :
            (~symbol_date_map[s].requires_full_download)
                <=> (symbol_date_map[s].last_available_date # None)


\* ------------------------------------------- C26: partial download kept
\* a step in which a /klines request raises
RequestFailed == RequestSent /\ pages' = pages
\* a step in which the loop body ends for a symbol one of whose requests
\* raised after at least one page had been received
StoreAfterFailure ==
    /\ pc = "filter3"
    /\ phase = "store"
    /\ idx' = idx + 1
    /\ CurrentSymbol \in failed_downloads
    /\ records # <<>>
\* every one of the records has its date in the log
InLog(recs, file) ==
    \A i \in 1..Len(recs) : recs[i].date \in DateSet(file.lines)

Held == {[open_time |-> StrpTime(d) * 1000] : d \in 0..MaxDay}
HeldFrom(start_ms) == {c \in Held : c.open_time >= start_ms}
HeldDatesFrom(start_ms) ==
    {DateOfTick(c.open_time \div 1000) : c \in HeldFrom(start_ms)}

\* the page is what the exchange holds from startTime on, in ascending order
\* and without holes, up to some limit; it is empty only if nothing is held
FaithfulPage(start_ms, page) ==
    IF HeldFrom(start_ms) = {}
    THEN page = <<>>
    ELSE /\ page # <<>>
         /\ \A i \in 1..Len(page) :
               /\ page[i] \in HeldFrom(start_ms)
               /\ Cardinality({c \in HeldFrom(start_ms) :
                                  c.open_time < page[i].open_time}) = i - 1

\* every request for the symbol in work succeeded with such a page
AllFaithful ==
    /\ Len(pages) = Len(requests)
    /\ \A i \in 1..Len(requests) :
          FaithfulPage(requests[i].startTime, pages[i])

\* the log can be read and holds candle records only (or does not exist)
WellFormed(file) ==
    /\ file.accessible
    /\ \A i \in 1..Len(file.lines) : file.lines[i].kind = "rec"

\* the start date filter 3 computes for the symbol, in ms
FetchStart(s) ==
    IF symbol_date_map[s].requires_full_download
    THEN (Now - TimeDelta(FULL_DOWNLOAD_DAYS)) * 1000
    ELSE (StrpTime(symbol_date_map[s].last_available_date) + TimeDelta(1)) * 1000

\* a step in which the loop body of filter 3 ends after the download
StoreStep == pc = "filter3" /\ phase = "store" /\ idx' = idx + 1

\* C27 (gap filling is complete): if a symbol's log is well-formed and all
\* /klines requests of a run for the symbol succeed with pages in ascending
\* date order, then after the run the log's set of dates is its set of
\* dates before, united with every candle date the exchange holds from the
\* run's fetch start date on; so a run without failure brings the log up to
\* the exchange's latest date, also after a run that a failure cut short.
C27_GapFilled ==
    [][(StoreStep /\ WellFormed(files[CurrentSymbol]) /\ AllFaithful) =>
          DateSet(files'[CurrentSymbol].lines) =
              DateSet(files[CurrentSymbol].lines)
                  \cup HeldDatesFrom(FetchStart(CurrentSymbol))]_vars


\* ----------------------------------- C28: singleton under concurrency
\* the threads whose call of CacheManager() has returned
Returned == {t \in Threads : new_returned[t].returned}

\* all calls return the same instance
SameInstance ==
    \A t, u \in Returned :
        /\ new_returned[t].instance # None
        /\ new_returned[t].instance = new_returned[u].instance

\* every returned instance had all its attributes when it was returned
ReturnedInitialised ==
    \A t \in Returned : new_returned[t].attrs = InstanceAttrs

\* C28 (singleton construction under concurrency): in every interleaving of
\* threads that call CacheManager() for the first time, all calls return
\* the same instance, and every instance has its attributes _cache, _ttl
\* and _access_times at the moment it is returned.
C28_Singleton == SameInstance /\ ReturnedInitialised


\* ------------------------------------------- C29: cache key consistency
\* C29 (cache key consistency): in every state reachable by interleaving
\* concurrent calls of set, get, remove, clear and cleanup_expired, _cache
\* and _ttl have the same keys whenever no call holds the lock.
C29_KeysConsistent == mgr_lock = None => mgr_cache = DOMAIN mgr_ttl


\* ------------------------------------------ C30: observer notification
\* the observers attached when notify was called
AttachedThen == {o \in ObserverSet : notify_call.attached_at[o] # None}

\* C30 (observer notification): after any sequence of attach and detach
\* calls, notify calls update exactly once on each observer attached at the
\* time of the call (once even if it was attached several times, not at all
\* if it was detached), in the order of attachment, and an update that
\* raises does not keep the observers after it from being called.
C30_NotifyAll ==
    notify_call.made =>
        LET updated == notify_call.updated
        IN /\ Range(updated) = AttachedThen
           /\ \A i, j \in 1..Len(updated) :
                 i < j =>
                    /\ updated[i] # updated[j]
                    /\ notify_call.attached_at[updated[i]] # None
                    /\ notify_call.attached_at[updated[j]] # None
                    /\ notify_call.attached_at[updated[i]]
                          < notify_call.attached_at[updated[j]]

\* C30 witness: notify was called when three observers were attached, one
\* of them again after a detach and so last in order, and the update of the
\* first one raised; all three were called.
C30_Witness ==
    /\ notify_call.made
    /\ Len(notify_call.updated) = 3
    /\ notify_call.updated[1] \in notify_call.raising
    /\ notify_call.updated[3] = "a"
    /\ subject_calls = MaxSubjectCalls

====
